---- MODULE Spec2Model ----
(***************************************************************************)
(* A model of the Web Search MCP server                                    *)
(* (src/servers/web-search-mcp/main.py): the dispatch loop of              *)
(* WebSearchMCP.run / handle_message, the four tool handlers up to and     *)
(* after their network call, what they extract from the page delivered,    *)
(* the fetch cache, and the lifecycle of the HTTP session under            *)
(* end-of-input and termination signals.                                   *)
(*                                                                         *)
(* The server is one asyncio event loop.  The main task (run) and the      *)
(* tasks created by signal_handler are coroutines: each action below runs  *)
(* one task from one await to the next, which is the granularity at which  *)
(* the event loop interleaves them.                                        *)
(***************************************************************************)
EXTENDS Integers, Sequences, FiniteSets, TLC

(* ------------------------------ bounds --------------------------------- *)

\* Input lines the client sends before the model stops reading.
MaxLines == 2

\* Termination signals delivered to the process.
MaxSignals == 1

\* Longest time (seconds) the model follows a network call that carries no
\* per-request timeout.
MaxWait == 20

\* Anchors on a page of the link specification.
MaxAnchors == 3

\* Elements on a page of the scrape specification.
MaxElems == 2

(* ------------------------- program constants --------------------------- *)

\* self.cache_ttl = 300
cache_ttl == 300

\* timeout=10 of session.get in fetch_webpage, extract_links, scrape_data
RequestTimeout == 10

(* --------------------------- input domains ----------------------------- *)

Absent == "absent"

\* request ids: absent/null, or a value
Ids == {"none", "a"}

URLs == {"u1", "u2"}

\* The markup a completed network call delivers, as the handlers read it:
\* the div.result blocks of a search page in document order (each with or
\* without its a.result__a), the hrefs of the anchors, and the elements the
\* selectors of a scrape are matched against.
Page(blocks, anchors, elems) ==
    [blocks |-> blocks, anchors |-> anchors, elems |-> elems]

\* an href: a path relative to the page, or an absolute URL with its host
Href(host, path) == [host |-> host, path |-> path]

RelA == Href(Absent, "/a")

AbsA == Href("h", "/a")

ExtB == Href("x", "/b")

Hrefs == {RelA, AbsA, ExtB}

\* str(response.url): the final URL of the page, whose host is "h"
base_url == Href("h", "/")

\* an element: the selector it matches, its text, and the value of the
\* attribute a selector record may name ("absent" when elem.get(attribute)
\* is falsy)
Elem(cls, text, attr) == [cls |-> cls, text |-> text, attr |-> attr]

Elems == {Elem("s", "t1", Absent), Elem("s", "t2", "v2"), Elem("z", "t3", "v3")}

PlainPage == Page(<<"titled">>, <<RelA>>, <<Elem("s", "t2", "v2")>>)

OtherPage == Page(<<"titled", "untitled">>, <<ExtB>>, <<Elem("s", "t1", Absent)>>)

Bodies == {PlainPage}

CacheBodies == {PlainPage, OtherPage}

\* n result blocks, all with a title
Titled(n) == [i \in 1..n |-> "titled"]

\* search pages: no result, fewer results than any limit (one of them without
\* a title), more results than the largest limit
SearchPages ==
    {Page(b, <<>>, <<>>) : b \in {<<>>, <<"titled", "untitled", "titled">>, Titled(22)}}

\* every sequence of up to n members of a set
SeqsUpTo(set, n) == UNION {[1..k -> set] : k \in 0..n}

\* link pages: every sequence of up to MaxAnchors anchors
LinkPages == {Page(<<>>, a, <<>>) : a \in SeqsUpTo(Hrefs, MaxAnchors)}

\* scrape pages: every sequence of up to MaxElems elements
ScrapePages == {Page(<<>>, <<>>, e) : e \in SeqsUpTo(Elems, MaxElems)}

\* how find_all(limit=0) behaves, which depends on the version of the parsing
\* library installed: as no limit, or as a limit reached by the first match
Builds == {"unlimited", "first"}

RegisteredTools == {"webSearch", "fetchWebpage", "extractLinks", "scrapeData"}

\* params as request.get('params', {}) sees it: the key is absent, its value
\* is null, its value is not a mapping, or it is a mapping.  A mapping is
\* given by the keys the handlers read; "absent" also stands for a value that
\* is falsy (an empty string).
NoParams ==
    [shape |-> Absent, query |-> Absent, mrKind |-> Absent, maxResults |-> 0,
     url |-> Absent, extractText |-> Absent, extractMetadata |-> Absent,
     internalOnly |-> Absent, externalOnly |-> Absent, selectors |-> Absent,
     fields |-> <<>>]

NullParams == [NoParams EXCEPT !.shape = "null"]

NotMappingParams == [NoParams EXCEPT !.shape = "notmap"]

EmptyMapping == [NoParams EXCEPT !.shape = "map"]

SearchParams ==
    {[EmptyMapping EXCEPT !.query = q, !.mrKind = k[1], !.maxResults = k[2]] :
        q \in {Absent, "q"}, k \in {<<Absent, 0>>, <<"str", 0>>, <<"int", 5>>}}

FetchParams ==
    {[EmptyMapping EXCEPT !.url = u, !.extractText = t, !.extractMetadata = m] :
        u \in {Absent} \cup URLs, t \in {Absent, "false"}, m \in {Absent, "false"}}

LinksParams ==
    {[EmptyMapping EXCEPT !.url = u] : u \in {Absent, "u1"}}

\* a selector_config: a bare selector string, a record {selector, attribute,
\* single}, or a value that is neither
SelectorConfig(kind, selector, attribute, single) ==
    [kind |-> kind, selector |-> selector, attribute |-> attribute, single |-> single]

BareSelector == SelectorConfig("str", "s", Absent, Absent)

SelectorConfigs ==
    {BareSelector, SelectorConfig("other", Absent, Absent, Absent)}
    \cup {SelectorConfig("dict", "s", a, o) :
            a \in {Absent, "href"}, o \in {Absent, "true"}}

\* selectors: absent, an empty mapping, or a mapping of field names to
\* selector_configs
Selectors(fields) == [EmptyMapping EXCEPT !.selectors = "map", !.fields = fields]

ScrapeParams ==
    {[EmptyMapping EXCEPT !.url = u, !.selectors = s] :
        u \in {Absent, "u1"}, s \in {Absent, "empty"}}
    \cup {[Selectors("f" :> BareSelector) EXCEPT !.url = u] : u \in {Absent, "u1"}}

\* webSearch with each kind of limit: the default, zero, below, at and above
\* the clamp
LimitParams ==
    {[EmptyMapping EXCEPT !.query = "q", !.mrKind = k[1], !.maxResults = k[2]] :
        k \in {<<Absent, 0>>, <<"int", 0>>, <<"int", 1>>, <<"int", 2>>,
               <<"int", 20>>, <<"int", 21>>}}

\* extractLinks with every combination of the two filters
FilterParams ==
    {[EmptyMapping EXCEPT !.url = "u1", !.internalOnly = i, !.externalOnly = e] :
        i \in {Absent, "true"}, e \in {Absent, "true"}}

\* scrapeData of one field with every kind of selector_config
FieldParams ==
    {[Selectors("f" :> c) EXCEPT !.url = "u1"] : c \in SelectorConfigs}

ParamsFor(tool) ==
    CASE tool = "webSearch" -> SearchParams
      [] tool = "fetchWebpage" -> FetchParams
      [] tool = "extractLinks" -> LinksParams
      [] tool = "scrapeData" -> ScrapeParams
      [] OTHER -> {NoParams}

\* An input line: blank, not decodable, decodable to something that is not
\* an object, or an object with the keys handle_message reads.
Line(kind, type, tool, id, params) ==
    [kind |-> kind, type |-> type, tool |-> tool, id |-> id, params |-> params]

NoLine == Line("none", Absent, Absent, "none", NoParams)

BlankLine == Line("blank", Absent, Absent, "none", NoParams)

MalformedLine == Line("malformed", Absent, Absent, "none", NoParams)

NonObjectLine == Line("value", Absent, Absent, "none", NoParams)

PlainLines ==
    {Line("object", ty, Absent, id, NoParams) :
        ty \in {Absent, "other", "ping", "list_tools", "tool"}, id \in Ids}

UnknownToolLines ==
    {Line("object", "tool", t, id, NoParams) :
        t \in {"doesNotExist", "unhashable"}, id \in Ids}

ToolLines ==
    UNION {{Line("object", "tool", t, id, p) :
                id \in Ids, p \in ParamsFor(t) \cup {NoParams, NullParams, NotMappingParams}} :
           t \in RegisteredTools}

FetchLines ==
    {Line("object", "tool", "fetchWebpage", "a", p) : p \in FetchParams}

SearchLines ==
    {Line("object", "tool", "webSearch", "a", p) : p \in LimitParams}

LinksLines ==
    {Line("object", "tool", "extractLinks", "a", p) : p \in FilterParams}

ScrapeLines ==
    {Line("object", "tool", "scrapeData", "a", p) : p \in FieldParams}

\* The lines of the protocol specification: every shape of line, fetches of
\* one URL with the default flags.
Lines ==
    {BlankLine, MalformedLine, NonObjectLine} \cup PlainLines \cup UnknownToolLines
    \cup {l \in ToolLines :
            l.tool = "fetchWebpage" =>
                /\ l.params.url # "u2"
                /\ l.params.extractText = Absent
                /\ l.params.extractMetadata = Absent}

\* The lines of the signal specification.
SignalLines ==
    {MalformedLine,
     Line("object", "ping", Absent, "a", NoParams),
     Line("object", "tool", "webSearch", "a", [EmptyMapping EXCEPT !.query = "q"]),
     Line("object", "tool", "fetchWebpage", "a", [EmptyMapping EXCEPT !.url = "u1"])}

\* seconds that pass while the loop waits for the next line
Delays == {1}

CacheDelays == {1, 300, 86400}

\* seconds that pass in one step of waiting for a network call
WaitSteps == {10}

(* ------------------------------- state --------------------------------- *)

VARIABLES
    pc,          \* where the main task (run) is: "start", "reading" (awaiting
                 \* readline), "awaiting" (a handler awaits its network call),
                 \* "closing" (shutdown awaits session.close()), "exited"
    session,     \* self.session: "none", "open", "closed"
    tools,       \* self.tools: the registered names
    cache,       \* self.cache: cache key -> [time, data]
    now,         \* datetime.now(), in seconds
    out,         \* the responses printed on stdout, in order
    nread,       \* input lines read so far
    cur,         \* the line being handled, or the last one handled
    handled,     \* how handle_message(cur) ended: "none", "skipped", "running",
                 \* "returned", "raised", "cancelled"
    net,         \* the network call the handler awaits
    inflight,    \* the lines (by index) whose handler has started and has
                 \* not returned
    sigTasks,    \* the shutdown tasks created by signal_handler
    created,     \* ClientSession objects constructed
    closeCalls,  \* calls of session.close()
    netCalls,    \* network calls issued on the session
    stopCause,   \* why the loop left its serving state: "none", "eof",
                 \* "signal", "fault"
    exitStatus,  \* status of sys.exit, "none" while the process runs
    lastNet,     \* per URL, the last result a network fetch produced and when
    obs,         \* what the last successful fetchWebpage call was observed to do
    page         \* the markup the last completed network call delivered

vars ==
    <<pc, session, tools, cache, now, out, nread, cur, handled, net, inflight,
      sigTasks, created, closeCalls, netCalls, stopCause, exitStatus, lastNet, obs,
      page>>

NoPage == Page(<<>>, <<>>, <<>>)

NoNet == [method |-> "none", timed |-> FALSE, waited |-> 0, started |-> 0]

NoObs == [line |-> 0, url |-> Absent, age |-> -1, viaNet |-> FALSE, same |-> FALSE]

(* ------------------------------ results -------------------------------- *)

Failure(msg) == [success |-> FALSE, error |-> msg]

NoResult == [success |-> FALSE, error |-> "no result"]

\* what a coroutine does up to its first suspension: it returns a value, it
\* raises, or it awaits a network call
Return(r) == [k |-> "return", result |-> r]

Raise == [k |-> "raise"]

Await(method, timed) == [k |-> "await", method |-> method, timed |-> timed]

\* how an awaited network call ends
Delivered(b) == [k |-> "body", body |-> b]

Refused == [k |-> "error", body |-> "none"]

TimedOut == [k |-> "timeout", body |-> "none"]

\* str(e) of the exception a failed network call raises
StrOf(ev) == IF ev.k = "timeout" THEN "TimeoutError" ELSE "ClientError"

\* params.get(name, default) of a flag
Flag(v, default) == IF v = Absent THEN default ELSE v = "true"

\* (later - earlier).seconds of a timedelta: the seconds component of the
\* normalised (days, seconds) pair
Seconds(delta) == delta % 86400

(* ------------------------------ handlers ------------------------------- *)

\* The four handlers, each in two halves: up to the await of its network call
\* (or its return or raise before it), and from the end of that call on.

\* web_search: params.get and min(params.get('maxResults', 10), 20) run
\* before the try block
web_search(params) ==
    IF params.shape # "map" THEN Raise
    ELSE IF params.mrKind = "str" THEN Raise
    ELSE IF params.query = Absent THEN Return(Failure("Query parameter is required"))
    ELSE IF session = "closed" THEN Return(Failure("Session is closed"))
    ELSE Await("post", FALSE)

max_results(params) ==
    LET n == IF params.mrKind = Absent THEN 10 ELSE params.maxResults
    IN  IF n < 20 THEN n ELSE 20

\* the first n elements of a sequence, all of them if it has fewer
Prefix(seq, n) == SubSeq(seq, 1, IF n < Len(seq) THEN n ELSE Len(seq))

\* soup.find_all('div', class_='result', limit=limit)
find_all(blocks, limit, build) ==
    IF limit # 0 THEN Prefix(blocks, limit)
    ELSE IF build = "unlimited" THEN blocks
    ELSE Prefix(blocks, 1)

\* the loop over the blocks found: one result for each block with a title
search_results(found) ==
    LET ranked == [i \in 1..Len(found) |-> [block |-> i, kind |-> found[i]]]
        titled == SelectSeq(ranked, LAMBDA r : r.kind = "titled")
    IN  [i \in 1..Len(titled) |-> [block |-> titled[i].block, source |-> "DuckDuckGo"]]

web_search_done(params, ev, build) ==
    IF ev.k = "body"
    THEN LET results ==
                 search_results(find_all(ev.body.blocks, max_results(params), build))
         IN  [success |-> TRUE, query |-> params.query, results |-> results,
              count |-> Len(results)]
    ELSE Failure(StrOf(ev))

cache_key(url) == "fetch:" \o url

\* the cache check of fetch_webpage at time t
cache_fresh(url, t) ==
    /\ cache_key(url) \in DOMAIN cache
    /\ Seconds(t - cache[cache_key(url)].time) < cache_ttl

fetch_webpage(params, t) ==
    IF params.shape # "map" THEN Raise
    ELSE IF params.url = Absent THEN Return(Failure("URL parameter is required"))
    ELSE IF cache_fresh(params.url, t) THEN Return(cache[cache_key(params.url)].data)
    ELSE IF session = "closed" THEN Return(Failure("Session is closed"))
    ELSE Await("get", TRUE)

fetch_webpage_done(params, ev) ==
    IF ev.k = "body"
    THEN [success |-> TRUE, url |-> params.url, body |-> ev.body,
          text |-> Flag(params.extractText, TRUE),
          metadata |-> Flag(params.extractMetadata, TRUE)]
    ELSE IF ev.k = "timeout" THEN Failure("Request timeout")
    ELSE Failure(StrOf(ev))

\* a store that does not look at how the fetch ended
cache_store_any(params, ev, t) ==
    [key \in DOMAIN cache \cup {cache_key(params.url)} |->
        IF key = cache_key(params.url)
        THEN [time |-> t, data |-> fetch_webpage_done(params, ev)]
        ELSE cache[key]]

\* self.cache[cache_key] = (datetime.now(), result), on a successful fetch only
cache_store(params, ev, t) ==
    IF ev.k = "body"
    THEN [key \in DOMAIN cache \cup {cache_key(params.url)} |->
            IF key = cache_key(params.url)
            THEN [time |-> t, data |-> fetch_webpage_done(params, ev)]
            ELSE cache[key]]
    ELSE cache

extract_links(params) ==
    IF params.shape # "map" THEN Raise
    ELSE IF params.url = Absent THEN Return(Failure("URL parameter is required"))
    ELSE IF session = "closed" THEN Return(Failure("Session is closed"))
    ELSE Await("get", TRUE)

\* urljoin(base_url, href)
urljoin(base, href) ==
    IF href.host = Absent THEN Href(base.host, href.path) ELSE href

\* a loop that skips no anchor
never_seen(absolute_url, seen) == FALSE

\* if absolute_url in seen: continue
already_seen(absolute_url, seen) == absolute_url \in seen

\* the loop over soup.find_all('a', href=True)
RECURSIVE link_records(_, _, _, _, _)
link_records(anchors, base, seen, internal_only, external_only) ==
    IF anchors = <<>> THEN <<>>
    ELSE LET absolute_url == urljoin(base, Head(anchors))
             is_internal == absolute_url.host = base.host
             rest == link_records(Tail(anchors), base, seen \cup {absolute_url},
                                  internal_only, external_only)
         IN  IF already_seen(absolute_url, seen) THEN rest
             ELSE IF internal_only /\ ~is_internal THEN rest
             ELSE IF external_only /\ is_internal THEN rest
             ELSE <<[url |-> absolute_url, internal |-> is_internal]>> \o rest

extract_links_done(params, ev) ==
    IF ev.k = "body"
    THEN LET links == link_records(ev.body.anchors, base_url, {},
                                   Flag(params.internalOnly, FALSE),
                                   Flag(params.externalOnly, FALSE))
         IN  [success |-> TRUE, url |-> params.url, links |-> links,
              count |-> Len(links),
              internal |-> Cardinality({i \in 1..Len(links) : links[i].internal}),
              external |-> Cardinality({i \in 1..Len(links) : ~links[i].internal})]
    ELSE Failure(StrOf(ev))

scrape_data(params) ==
    IF params.shape # "map" THEN Raise
    ELSE IF params.url = Absent THEN Return(Failure("URL parameter is required"))
    ELSE IF params.selectors \in {Absent, "empty"}
         THEN Return(Failure("Selectors parameter is required"))
    ELSE IF session = "closed" THEN Return(Failure("Session is closed"))
    ELSE Await("get", TRUE)

\* soup.select(selector)
select(elems, selector) == SelectSeq(elems, LAMBDA e : e.cls = selector)

\* the values of the elements selected by a selector record: the named
\* attribute of those that have it, or the text of each
values_of(elements, attribute) ==
    IF attribute # Absent
    THEN LET having == SelectSeq(elements, LAMBDA e : e.attr # Absent)
         IN  [i \in 1..Len(having) |-> having[i].attr]
    ELSE [i \in 1..Len(elements) |-> elements[i].text]

\* a value of scraped_data: a list of strings, or one string
ListValue(items) == [scalar |-> FALSE, items |-> items]

ScalarValue(item) == [scalar |-> TRUE, items |-> <<item>>]

\* values[0] if single and values else values
collapse(values, single) ==
    IF Flag(single, FALSE) /\ values # <<>> THEN ScalarValue(values[1])
    ELSE ListValue(values)

\* the fields the loop over selectors.items() puts into scraped_data
scraped_fields(elems, fields) ==
    {key \in DOMAIN fields :
        /\ fields[key].kind \in {"str", "dict"}
        /\ select(elems, fields[key].selector) # <<>>}

scraped_value(elems, config) ==
    IF config.kind = "str"
    THEN ListValue(values_of(select(elems, config.selector), Absent))
    ELSE collapse(values_of(select(elems, config.selector), config.attribute),
                  config.single)

scrape_data_done(params, ev) ==
    IF ev.k = "body"
    THEN LET scraped_data ==
                 [key \in scraped_fields(ev.body.elems, params.fields) |->
                     scraped_value(ev.body.elems, params.fields[key])]
         IN  [success |-> TRUE, url |-> params.url, data |-> scraped_data,
              fieldsExtracted |-> Cardinality(DOMAIN scraped_data)]
    ELSE Failure(StrOf(ev))

\* a cache written by whichever handler completes a network call
cache_after_any(tool, params, ev, t) == cache_store(params, ev, t)

\* self.cache once the handler has returned: fetch_webpage alone assigns it
cache_after(tool, params, ev, t) ==
    IF tool = "fetchWebpage" THEN cache_store(params, ev, t) ELSE cache

\* handler(params) for the registered name
handler(tool, params, t) ==
    CASE tool = "webSearch" -> web_search(params)
      [] tool = "fetchWebpage" -> fetch_webpage(params, t)
      [] tool = "extractLinks" -> extract_links(params)
      [] tool = "scrapeData" -> scrape_data(params)

handler_done(tool, params, ev, build) ==
    CASE tool = "webSearch" -> web_search_done(params, ev, build)
      [] tool = "fetchWebpage" -> fetch_webpage_done(params, ev)
      [] tool = "extractLinks" -> extract_links_done(params, ev)
      [] tool = "scrapeData" -> scrape_data_done(params, ev)

(* ----------------------------- responses ------------------------------- *)

\* A response as printed; line is the index of the input line it answers
\* (0 for the unprompted initialize response).
Response(type, requestId, tool, result, message, names) ==
    [type |-> type, requestId |-> requestId, tool |-> tool, result |-> result,
     message |-> message, tools |-> names, line |-> 0]

Emit(r) == [k |-> "emit", response |-> r]

\* send_response: json.dumps(response), then print
send_response(response) == Emit(response)

\* send_error with the request id left out of the response
send_error_without_id(message, request_id, caught) ==
    IF caught THEN Raise
    ELSE send_response(Response("error", "none", "none", NoResult, message, {}))

\* send_error: details is error.__traceback__, which is a traceback object
\* once the exception has been raised and caught; json.dumps cannot encode
\* it and raises before anything is printed.
send_error(message, request_id, caught) ==
    IF caught THEN Raise
    ELSE send_response(Response("error", request_id, "none", NoResult, message, {}))

\* request.get('params', {})
params_of(line) ==
    IF line.params.shape = Absent THEN EmptyMapping ELSE line.params

\* a pong that does not echo the id
pong_without_id(line) == Response("pong", "none", "none", NoResult, "", {})

\* {'type': 'pong', 'requestId': request.get('id'), 'timestamp': ...}
pong(line) == Response("pong", line.id, "none", NoResult, "", {})

tool_response(line, result) ==
    Response("tool_response", line.id, line.tool, result, "", {})

\* handle_message(message) at time t, up to its first suspension
handle_message(line, t) ==
    IF line.kind = "malformed" THEN send_error("JSONDecodeError", "none", TRUE)
    ELSE IF line.kind = "value" THEN send_error("AttributeError", "none", TRUE)
    ELSE IF line.type = Absent THEN send_error("KeyError", "none", TRUE)
    ELSE IF line.type = "tool" /\ line.tool # Absent
    THEN IF line.tool = "unhashable" THEN send_error("TypeError", "none", TRUE)
         ELSE IF line.tool \notin tools
         THEN send_error("Unknown tool: " \o line.tool, line.id, FALSE)
         ELSE LET h == handler(line.tool, params_of(line), t)
              IN  CASE h.k = "raise" -> send_error("handler raised", "none", TRUE)
                    [] h.k = "return" -> send_response(tool_response(line, h.result))
                    [] h.k = "await" -> h
    ELSE IF line.type = "list_tools"
    THEN send_response(Response("tools_list", line.id, "none", NoResult, "", tools))
    ELSE IF line.type = "ping"
    THEN send_response(pong(line))
    ELSE send_error("Unknown request type: " \o line.type, line.id, FALSE)

(* ------------------------------ lifecycle ------------------------------ *)

\* __init__: no tools, no session, an empty cache
Init ==
    /\ pc = "start"
    /\ session = "none"
    /\ tools = {}
    /\ cache = <<>>
    /\ now = 0
    /\ out = <<>>
    /\ nread = 0
    /\ cur = NoLine
    /\ handled = "none"
    /\ net = NoNet
    /\ inflight = {}
    /\ sigTasks = [i \in 1..MaxSignals |-> "none"]
    /\ created = 0
    /\ closeCalls = 0
    /\ netCalls = 0
    /\ stopCause = "none"
    /\ exitStatus = "none"
    /\ lastNet = <<>>
    /\ obs = NoObs
    /\ page = NoPage

\* a registration that leaves one tool out
register_three_tools == {"webSearch", "fetchWebpage", "extractLinks"}

\* register_tool, four times
register_tools == {"webSearch", "fetchWebpage", "extractLinks", "scrapeData"}

\* initialize(), then run() up to its first readline
initialize ==
    /\ pc = "start"
    /\ session' = "open"
    /\ created' = created + 1
    /\ tools' = tools \cup register_tools
    /\ out' = Append(out, Response("initialize", "none", "none", NoResult, "",
                                   tools \cup register_tools))
    /\ pc' = "reading"
    /\ UNCHANGED <<cache, now, nread, cur, handled, net, inflight, sigTasks,
                   closeCalls, netCalls, stopCause, exitStatus, lastNet, obs, page>>

\* a shutdown that exits without closing the session
shutdown_leaves_session == session

\* shutdown() up to its await: if self.session: await self.session.close()
shutdown_session == IF session = "none" THEN "none" ELSE "closed"

shutdown_calls == IF session = "none" THEN closeCalls ELSE closeCalls + 1

\* a loop that starts handle_message as a task instead of awaiting it
can_read_while_awaiting == pc \in {"reading", "awaiting"}

\* the loop of run() reads the next line only when handle_message has
\* returned: await self.handle_message(message)
can_read == pc = "reading"

is_fetch(line) ==
    line.kind = "object" /\ line.type = "tool" /\ line.tool = "fetchWebpage"

\* what a successful fetchWebpage call for url, made at time t, did
Observe(line_no, url, t, result, via_net) ==
    [line |-> line_no, url |-> url,
     age |-> IF url \in DOMAIN lastNet THEN t - lastNet[url].time ELSE -1,
     viaNet |-> via_net,
     same |-> url \in DOMAIN lastNet /\ lastNet[url].result = result]

\* run(): one line is read after d seconds and, unless it is blank,
\* handle_message runs up to its first suspension.  An exception that leaves
\* handle_message leaves the loop: the finally clause of run calls shutdown.
ReadLine(line, d) ==
    LET t == now + d
        o == handle_message(line, t)
        k == IF line.kind = "blank" THEN "skip" ELSE o.k
        hit == /\ k = "emit"
               /\ is_fetch(line)
               /\ o.response.type = "tool_response"
               /\ o.response.result.success
    IN  /\ can_read
        /\ pc # "exited"
        /\ nread < MaxLines
        /\ now' = t
        /\ nread' = nread + 1
        /\ cur' = line
        /\ handled' = CASE k = "skip" -> "skipped"
                        [] k = "emit" -> "returned"
                        [] k = "raise" -> "raised"
                        [] k = "await" -> "running"
        /\ out' = IF k = "emit"
                  THEN Append(out, [o.response EXCEPT !.line = nread + 1])
                  ELSE out
        /\ pc' = CASE k = "raise" -> "closing"
                   [] k = "await" -> "awaiting"
                   [] OTHER -> pc
        /\ session' = IF k = "raise" THEN shutdown_session ELSE session
        /\ closeCalls' = IF k = "raise" THEN shutdown_calls ELSE closeCalls
        /\ stopCause' = IF k = "raise" /\ stopCause = "none" THEN "fault" ELSE stopCause
        /\ net' = IF k = "await"
                  THEN [method |-> o.method, timed |-> o.timed, waited |-> 0,
                        started |-> t]
                  ELSE net
        /\ netCalls' = IF k = "await" THEN netCalls + 1 ELSE netCalls
        /\ inflight' = IF k = "await" THEN inflight \cup {nread + 1} ELSE inflight
        /\ obs' = IF hit
                  THEN Observe(nread + 1, line.params.url, t, o.response.result, FALSE)
                  ELSE obs
        /\ UNCHANGED <<tools, cache, sigTasks, created, exitStatus, lastNet, page>>

\* readline returns b'': break, then the finally clause calls shutdown
ReadEOF ==
    /\ pc = "reading"
    /\ pc' = "closing"
    /\ session' = shutdown_session
    /\ closeCalls' = shutdown_calls
    /\ stopCause' = IF stopCause = "none" THEN "eof" ELSE stopCause
    /\ UNCHANGED <<tools, cache, now, out, nread, cur, handled, net, inflight,
                   sigTasks, created, netCalls, exitStatus, lastNet, obs, page>>

\* the time a pending call may take: timeout=10 where the call passes it
wait_limit == IF net.timed THEN RequestTimeout ELSE MaxWait

\* d seconds pass while the handler awaits its network call
NetWait(d) ==
    /\ pc = "awaiting"
    /\ net.waited + d <= wait_limit
    /\ net' = [net EXCEPT !.waited = @ + d]
    /\ now' = now + d
    /\ UNCHANGED <<pc, session, tools, cache, out, nread, cur, handled, inflight,
                   sigTasks, created, closeCalls, netCalls, stopCause, exitStatus,
                   lastNet, obs, page>>

\* the awaited call ends with ev; the handler runs to its return and
\* handle_message prints the tool_response
Complete(ev, build) ==
    LET params == params_of(cur)
        result == handler_done(cur.tool, params, ev, build)
        fetched == cur.tool = "fetchWebpage" /\ ev.k = "body"
    IN  /\ pc = "awaiting"
        /\ out' = Append(out, [tool_response(cur, result) EXCEPT !.line = nread])
        /\ cache' = cache_after(cur.tool, params, ev, now)
        /\ lastNet' = IF fetched
                      THEN [u \in DOMAIN lastNet \cup {params.url} |->
                              IF u = params.url
                              THEN [time |-> now, result |-> result]
                              ELSE lastNet[u]]
                      ELSE lastNet
        /\ obs' = IF fetched
                  THEN Observe(nread, params.url, net.started, result, TRUE)
                  ELSE obs
        /\ page' = IF ev.k = "body" THEN ev.body ELSE NoPage
        /\ pc' = "reading"
        /\ handled' = "returned"
        /\ net' = NoNet
        /\ inflight' = inflight \ {nread}
        /\ UNCHANGED <<session, tools, now, nread, cur, sigTasks, created, closeCalls,
                       netCalls, stopCause, exitStatus>>

NetRespond(b, build) ==
    /\ net.timed => net.waited < RequestTimeout
    /\ Complete(Delivered(b), build)

NetError ==
    /\ net.timed => net.waited < RequestTimeout
    /\ \E build \in Builds : Complete(Refused, build)

\* asyncio.TimeoutError once the timeout of the call has passed
NetTimeout ==
    /\ net.timed
    /\ net.waited >= RequestTimeout
    /\ \E build \in Builds : Complete(TimedOut, build)

\* signal_handler: asyncio.create_task(server.shutdown())
signal_handler(i) ==
    /\ pc \notin {"start", "exited"}
    /\ sigTasks[i] = "none"
    /\ \A j \in 1..(i - 1) : sigTasks[j] # "none"
    /\ sigTasks' = [sigTasks EXCEPT ![i] = "pending"]
    /\ UNCHANGED <<pc, session, tools, cache, now, out, nread, cur, handled, net,
                   inflight, created, closeCalls, netCalls, stopCause, exitStatus,
                   lastNet, obs, page>>

\* the task of a signal starts while the main task is suspended: shutdown()
\* up to its await of session.close()
SignalShutdown(i) ==
    /\ pc \in {"reading", "awaiting", "closing"}
    /\ sigTasks[i] = "pending"
    /\ sigTasks' = [sigTasks EXCEPT ![i] = "closing"]
    /\ session' = shutdown_session
    /\ closeCalls' = shutdown_calls
    /\ UNCHANGED <<pc, tools, cache, now, out, nread, cur, handled, net, inflight,
                   created, netCalls, stopCause, exitStatus, lastNet, obs, page>>

\* the tasks left when SystemExit leaves the event loop are cancelled: one
\* that never started never runs, one suspended in shutdown stops there
cancel_tasks(done) ==
    [j \in 1..MaxSignals |->
        IF j \in done THEN "done"
        ELSE IF sigTasks[j] \in {"pending", "closing"} THEN "cancelled"
        ELSE sigTasks[j]]

\* sys.exit(0) in the task of a signal.  SystemExit leaves the event loop and
\* asyncio.run cancels the main task where it is suspended; unless it is
\* already in shutdown, the finally clause of run calls shutdown again.
SignalExit(i) ==
    LET again == pc \in {"reading", "awaiting"}
    IN  /\ pc \in {"reading", "awaiting", "closing"}
        /\ sigTasks[i] = "closing"
        /\ sigTasks' = cancel_tasks({i})
        /\ session' = IF again THEN shutdown_session ELSE session
        /\ closeCalls' = IF again THEN shutdown_calls ELSE closeCalls
        /\ handled' = IF pc = "awaiting" THEN "cancelled" ELSE handled
        /\ net' = NoNet
        /\ inflight' = {}
        /\ stopCause' = IF stopCause = "none" THEN "signal" ELSE stopCause
        /\ pc' = "exited"
        /\ exitStatus' = "0"
        /\ UNCHANGED <<tools, cache, now, out, nread, cur, created, netCalls,
                       lastNet, obs, page>>

\* shutdown() of the main task after its await: sys.exit(0)
shutdown ==
    /\ pc = "closing"
    /\ pc' = "exited"
    /\ exitStatus' = "0"
    /\ sigTasks' = cancel_tasks({})
    /\ UNCHANGED <<session, tools, cache, now, out, nread, cur, handled, net,
                   inflight, created, closeCalls, netCalls, stopCause, lastNet, obs,
                   page>>

\* The protocol specification: every shape of line, no signal.
Next ==
    \/ initialize
    \/ \E line \in Lines, d \in Delays : ReadLine(line, d)
    \/ ReadEOF
    \/ \E d \in WaitSteps : NetWait(d)
    \/ \E b \in Bodies, build \in Builds : NetRespond(b, build)
    \/ NetError
    \/ NetTimeout
    \/ shutdown

Spec == Init /\ [][Next]_vars

\* The protocol specification with the scheduling of the event loop: the
\* await of session.close() completes and the main task is resumed, so a
\* shutdown that has started goes on to sys.exit.
SpecLive == Spec /\ WF_vars(shutdown)

\* The same server fed fetchWebpage requests only, over both URLs and every
\* flag combination, with delays that reach past the TTL and past one day.
NextCache ==
    \/ initialize
    \/ \E line \in FetchLines, d \in CacheDelays : ReadLine(line, d)
    \/ ReadEOF
    \/ \E d \in WaitSteps : NetWait(d)
    \/ \E b \in CacheBodies, build \in Builds : NetRespond(b, build)
    \/ NetError
    \/ NetTimeout
    \/ shutdown

SpecCache == Init /\ [][NextCache]_vars

\* The same server fed one fetchWebpage request and one request of every
\* other kind, with delays that let a cache entry expire.
FrameLines ==
    {l \in FetchLines :
        /\ l.params.url \in {Absent, "u1"}
        /\ l.params.extractText = Absent
        /\ l.params.extractMetadata = Absent}
    \cup {l \in PlainLines \cup UnknownToolLines : l.id = "a"}
    \cup {MalformedLine}
    \cup {Line("object", "tool", "webSearch", "a", [EmptyMapping EXCEPT !.query = "q"]),
          Line("object", "tool", "extractLinks", "a", [EmptyMapping EXCEPT !.url = "u1"]),
          Line("object", "tool", "scrapeData", "a",
               [Selectors("f" :> BareSelector) EXCEPT !.url = "u1"])}

NextFrame ==
    \/ initialize
    \/ \E line \in FrameLines, d \in CacheDelays : ReadLine(line, d)
    \/ ReadEOF
    \/ \E d \in WaitSteps : NetWait(d)
    \/ \E b \in CacheBodies, build \in Builds : NetRespond(b, build)
    \/ NetError
    \/ NetTimeout
    \/ shutdown

SpecFrame == Init /\ [][NextFrame]_vars

\* The same server under termination signals, fed one line of each kind of
\* outcome: an immediate response, a fault, and the two kinds of network call.
NextSignals ==
    \/ initialize
    \/ \E i \in 1..MaxSignals : signal_handler(i)
    \/ \E i \in 1..MaxSignals : SignalShutdown(i)
    \/ \E i \in 1..MaxSignals : SignalExit(i)
    \/ \E line \in SignalLines, d \in Delays : ReadLine(line, d)
    \/ ReadEOF
    \/ \E d \in WaitSteps : NetWait(d)
    \/ \E b \in Bodies, build \in Builds : NetRespond(b, build)
    \/ NetError
    \/ NetTimeout
    \/ shutdown

SpecSignals == Init /\ [][NextSignals]_vars

\* The same server fed webSearch requests with each kind of limit, answered
\* by search pages with fewer and with more result blocks than the limit.
\* session.post carries no timeout, so no call of these requests times out.
NextSearch ==
    \/ initialize
    \/ \E line \in SearchLines, d \in Delays : ReadLine(line, d)
    \/ ReadEOF
    \/ \E d \in WaitSteps : NetWait(d)
    \/ \E b \in SearchPages, build \in Builds : NetRespond(b, build)
    \/ NetError
    \/ shutdown

SpecSearch == Init /\ [][NextSearch]_vars

\* The same server fed extractLinks requests with every combination of the
\* filters, answered by pages with repeated, internal and external anchors.
NextLinks ==
    \/ initialize
    \/ \E line \in LinksLines, d \in Delays : ReadLine(line, d)
    \/ ReadEOF
    \/ \E d \in WaitSteps : NetWait(d)
    \/ \E b \in LinkPages, build \in Builds : NetRespond(b, build)
    \/ NetError
    \/ NetTimeout
    \/ shutdown

SpecLinks == Init /\ [][NextLinks]_vars

\* The same server fed scrapeData requests of one field with every kind of
\* selector_config, answered by pages whose elements match it or not.
NextScrape ==
    \/ initialize
    \/ \E line \in ScrapeLines, d \in Delays : ReadLine(line, d)
    \/ ReadEOF
    \/ \E d \in WaitSteps : NetWait(d)
    \/ \E b \in ScrapePages, build \in Builds : NetRespond(b, build)
    \/ NetError
    \/ NetTimeout
    \/ shutdown

SpecScrape == Init /\ [][NextScrape]_vars

(* ------------------------------- claims -------------------------------- *)

\* the responses printed for input line n
ResponsesTo(n) == {i \in 1..Len(out) : out[i].line = n}

\* handle_message(cur) has ended, by a return or by an exception
Ended == handled \in {"returned", "raised"}

IsToolRequest(line) ==
    line.kind = "object" /\ line.type = "tool" /\ line.tool \in RegisteredTools

\* a request of type tool, list_tools or ping whose tool, if any, is a name
\* and whose params, if any, is a mapping
ValidRequest(line) ==
    /\ line.kind = "object"
    /\ line.type \in {"tool", "list_tools", "ping"}
    /\ line.tool # "unhashable"
    /\ line.params.shape \in {Absent, "map"}

\* C1: every request of type tool, list_tools or ping (any id, any tool name,
\* params a mapping) gets exactly one response, and its requestId is the
\* request's id.
C1_OneResponsePerRequest ==
    (Ended /\ ValidRequest(cur)) =>
        /\ Cardinality(ResponsesTo(nread)) = 1
        /\ \A i \in ResponsesTo(nread) : out[i].requestId = cur.id

\* C2: a line that is not decodable is answered by one error response with
\* requestId null, and the loop goes on reading.
C2_MalformedLineAnswered ==
    (cur.kind = "malformed" /\ handled # "none") =>
        /\ handled = "returned"
        /\ stopCause # "fault"
        /\ Cardinality(ResponsesTo(nread)) = 1
        /\ \A i \in ResponsesTo(nread) :
              out[i].type = "error" /\ out[i].requestId = "none"

\* C3: no failure raised while handling a tool request ends the loop (it
\* leaves its serving state on end-of-input or a signal only), whatever the
\* params are; the failure is reported in a response.
C3_ToolFailureContained ==
    IsToolRequest(cur) =>
        /\ handled # "raised"
        /\ stopCause \in {"none", "eof", "signal"}

\* C4: fetchWebpage never serves a cache entry whose age is 300 seconds or
\* more, however large the age.
C4_NoStaleCacheHit ==
    (obs.line > 0 /\ ~obs.viaNet) => (obs.age >= 0 /\ obs.age < cache_ttl)

\* C5: a successful fetch of a URL made within the TTL of the previous network
\* fetch of that URL returns the identical result without a network call; one
\* made after the TTL has elapsed performs a network call.
C5_CacheWindow ==
    (obs.line > 0 /\ obs.age >= 0) =>
        /\ obs.age < cache_ttl => (~obs.viaNet /\ obs.same)
        /\ obs.age >= cache_ttl => obs.viaNet

\* C6: the HTTP session is created once, closed exactly once, and no handler
\* issues a call on it after it has been closed.
C6_SessionLifecycle ==
    /\ created <= 1
    /\ pc # "start" => created = 1
    /\ closeCalls <= 1
    /\ pc = "exited" => closeCalls = 1
    /\ \A i \in 1..Len(out) :
          out[i].type = "tool_response" => out[i].result # Failure("Session is closed")

\* C7: one request at a time: no line is read while a handler is in flight,
\* at most one handler is in flight, and the responses are printed in the
\* order in which their requests were read.
C7_OneRequestAtATime ==
    /\ [](Cardinality(inflight) <= 1)
    /\ [](\A i, j \in 1..Len(out) : i < j => out[i].line <= out[j].line)
    /\ [](\A i \in 1..Len(out) : out[i].line <= nread)
    /\ [][nread' # nread => (inflight = {} /\ pc = "reading")]_vars

\* two lines read, the first answered after a network call, the second too
C7_Witness ==
    /\ nread = 2
    /\ netCalls = 2
    /\ Len(out) = 3
    /\ out[2].line = 1 /\ out[2].type = "tool_response"
    /\ out[3].line = 2 /\ out[3].type = "tool_response"

\* C8: every pending network call carries the per-request timeout and has
\* not outlasted it; a fetchWebpage call that times out returns
\* {success: false, error: "Request timeout"}.
C8_CallsBounded ==
    /\ pc = "awaiting" => (net.timed /\ net.waited <= RequestTimeout)
    /\ \A i \in 1..Len(out) :
          (out[i].type = "tool_response" /\ out[i].tool = "fetchWebpage")
              => out[i].result # Failure(StrOf(TimedOut))

\* a request of type tool whose tool is a name that is not registered
UnknownTool(line) ==
    /\ line.kind = "object"
    /\ line.type = "tool"
    /\ line.tool \notin RegisteredTools \cup {Absent, "unhashable"}

\* C9: reading a tool request whose name is not registered prints exactly one
\* error response, "Unknown tool: <name>" with the request's id, and does
\* nothing else: no handler runs and no network call is made.
C9_UnknownToolIsProtocolError ==
    [][(nread' # nread /\ UnknownTool(cur')) =>
          /\ out' = Append(out, [type |-> "error", requestId |-> cur'.id,
                                 tool |-> "none", result |-> NoResult,
                                 message |-> "Unknown tool: " \o cur'.tool,
                                 tools |-> {}, line |-> nread'])
          /\ handled' = "returned"
          /\ pc' = "reading"
          /\ inflight' = inflight
          /\ netCalls' = netCalls
          /\ cache' = cache]_vars

\* an unknown tool was named, with an id, and answered
C9_Witness ==
    /\ UnknownTool(cur)
    /\ cur.id = "a"
    /\ handled = "returned"
    /\ out[Len(out)].type = "error"
    /\ out[Len(out)].requestId = "a"

\* a tool request whose params is a mapping that lacks a required parameter
MissingRequired(line) ==
    /\ IsToolRequest(line)
    /\ line.params.shape \in {Absent, "map"}
    /\ \/ line.tool = "webSearch" /\ line.params.query = Absent
       \/ line.tool # "webSearch" /\ line.params.url = Absent
       \/ line.tool = "scrapeData" /\ line.params.selectors \in {Absent, "empty"}

\* C10: reading a tool request that lacks a required parameter prints one
\* tool_response whose result is {success: false, error}, makes no network
\* call and leaves the cache unchanged.
C10_ValidationInline ==
    [][(nread' # nread /\ MissingRequired(cur')) =>
          /\ handled' = "returned"
          /\ Len(out') = Len(out) + 1
          /\ out'[Len(out')].type = "tool_response"
          /\ out'[Len(out')].requestId = cur'.id
          /\ ~out'[Len(out')].result.success
          /\ netCalls' = netCalls
          /\ cache' = cache]_vars

\* handle_message(cur) has returned after printing a tool_response of the
\* named tool with a successful result; Answer is that result
Answered(tool) ==
    /\ handled = "returned"
    /\ IsToolRequest(cur)
    /\ cur.tool = tool
    /\ Len(out) > 0
    /\ out[Len(out)].line = nread
    /\ out[Len(out)].type = "tool_response"
    /\ out[Len(out)].result.success

Answer == out[Len(out)].result

\* a field given as a record with single=true whose selector matches at
\* least one element of the page
SingleMatched(config) ==
    /\ config.kind = "dict"
    /\ config.single = "true"
    /\ \E i \in 1..Len(page.elems) : page.elems[i].cls = config.selector

\* C11: in a successful scrapeData result, every field given as a record
\* with single=true whose selector matches at least one element, with or
\* without an attribute option, has a scalar value in data, never a sequence.
C11_SingleYieldsScalar ==
    Answered("scrapeData") =>
        \A key \in DOMAIN cur.params.fields :
            SingleMatched(cur.params.fields[key]) =>
                /\ key \in DOMAIN Answer.data
                /\ Answer.data[key].scalar

\* C12: a successful extractLinks result has no two links with the same
\* absolute URL, internal + external = count = the number of links, and
\* count = 0 when internalOnly and externalOnly are both true.
C12_LinksDistinctAndCounted ==
    Answered("extractLinks") =>
        /\ \A i, j \in 1..Len(Answer.links) :
               i # j => Answer.links[i].url # Answer.links[j].url
        /\ Answer.count = Len(Answer.links)
        /\ Answer.internal + Answer.external = Answer.count
        /\ (cur.params.internalOnly = "true" /\ cur.params.externalOnly = "true")
               => Answer.count = 0

\* two anchors of the page resolve to the same absolute URL
RepeatedAnchor ==
    \E i, j \in 1..Len(page.anchors) :
        i # j /\ urljoin(base_url, page.anchors[i]) = urljoin(base_url, page.anchors[j])

\* line 1 was answered with one internal link and one external one; line 2
\* set both filters, its page repeats an anchor, and it was answered with none
C12_Witness ==
    /\ nread = 2
    /\ Len(out) = 3
    /\ out[2].result.success
    /\ out[2].result.count = 2
    /\ out[2].result.internal = 1
    /\ out[2].result.external = 1
    /\ Answered("extractLinks")
    /\ cur.params.internalOnly = "true" /\ cur.params.externalOnly = "true"
    /\ Len(page.anchors) = 3
    /\ RepeatedAnchor
    /\ Answer.count = 0

\* C13: a successful webSearch result has count equal to the number of
\* results returned and at most min(maxResults, 20), maxResults being 10 by
\* default; a maxResults above 20 gives what 20 gives.
C13_CountWithinLimit ==
    Answered("webSearch") =>
        LET asked == IF cur.params.mrKind = Absent THEN 10 ELSE cur.params.maxResults
            limit == IF asked < 20 THEN asked ELSE 20
        IN  /\ Answer.count = Len(Answer.results)
            /\ Answer.count <= limit
            /\ asked > 20 => Answer.results = search_results(Prefix(page.blocks, 20))

\* C14: once the input stream has ended no further line is read and nothing
\* more is printed: the response to every request read before is already
\* out, no handler is in flight, the session is closed; and shutdown goes on
\* to exit the process with status 0.
C14_EndOfInputShutsDown ==
    /\ [](stopCause = "eof" =>
            /\ pc \in {"closing", "exited"}
            /\ session = "closed"
            /\ closeCalls >= 1
            /\ inflight = {}
            /\ handled \in {"none", "skipped", "returned"}
            /\ handled = "returned" => Cardinality(ResponsesTo(nread)) = 1)
    /\ [][stopCause = "eof" => (nread' = nread /\ out' = out /\ session' = "closed")]_vars
    /\ []((stopCause = "eof" /\ pc = "exited") => exitStatus = "0")
    /\ (stopCause = "eof") ~> (pc = "exited" /\ exitStatus = "0" /\ session = "closed")

\* two requests were answered, the input ended and the process has exited
C14_Witness ==
    /\ stopCause = "eof"
    /\ pc = "exited"
    /\ exitStatus = "0"
    /\ session = "closed"
    /\ nread = 2
    /\ Len(out) = 3
    /\ out[3].line = 2

IsPing(line) == line.kind = "object" /\ line.type = "ping"

\* C15: reading a ping request prints one pong response carrying the
\* request's id and changes nothing else: the cache, the tool registry and
\* the session are unchanged and no network call is made.
C15_PingIsPure ==
    [][(nread' # nread /\ IsPing(cur')) =>
          /\ out' = Append(out, [type |-> "pong", requestId |-> cur'.id,
                                 tool |-> "none", result |-> NoResult,
                                 message |-> "", tools |-> {}, line |-> nread'])
          /\ handled' = "returned"
          /\ pc' = "reading"
          /\ cache' = cache
          /\ tools' = tools
          /\ session' = session
          /\ netCalls' = netCalls
          /\ inflight' = inflight]_vars

\* a ping with an id was answered while the cache held an entry
C15_Witness ==
    /\ IsPing(cur)
    /\ cur.id = "a"
    /\ handled = "returned"
    /\ DOMAIN cache # {}
    /\ out[Len(out)].type = "pong"
    /\ out[Len(out)].requestId = "a"
    /\ out[Len(out)].line = nread

\* the positions of the initialize responses on the output
InitializeResponses == {i \in 1..Len(out) : out[i].type = "initialize"}

\* C16: the initialize response is printed exactly once, first, before any
\* line is read; it lists the four registered tools, and no later response
\* is of type initialize.
C16_InitializeOnceAndFirst ==
    /\ pc = "start" => (out = <<>> /\ nread = 0)
    /\ pc # "start" =>
          /\ InitializeResponses = {1}
          /\ out[1].line = 0
          /\ out[1].tools = {"webSearch", "fetchWebpage", "extractLinks", "scrapeData"}

\* two requests were answered after the initialize response
C16_Witness ==
    /\ nread = 2
    /\ Len(out) = 3
    /\ out[1].type = "initialize"
    /\ out[2].type = "tools_list"
    /\ out[3].type = "tool_response"

\* the step prints a tool_response of fetchWebpage
FetchAnswered ==
    /\ Len(out') = Len(out) + 1
    /\ out'[Len(out')].type = "tool_response"
    /\ out'[Len(out')].tool = "fetchWebpage"

\* C17: every cache entry holds a result with success = true; a fetchWebpage
\* call that fails leaves the cache as it was, and a successful fetch over
\* the network stores the result it returns under the key of the requested
\* URL.
C17_CacheHoldsSuccesses ==
    /\ [](\A key \in DOMAIN cache : cache[key].data.success)
    /\ [][(FetchAnswered /\ ~out'[Len(out')].result.success) => cache' = cache]_vars
    /\ [][(FetchAnswered /\ out'[Len(out')].result.success /\ pc = "awaiting") =>
            /\ cache_key(cur.params.url) \in DOMAIN cache'
            /\ cache'[cache_key(cur.params.url)].data = out'[Len(out')].result
            /\ \A key \in DOMAIN cache :
                  key # cache_key(cur.params.url) => cache'[key] = cache[key]]_vars

\* a fetch of a URL whose entry had expired went to the network and timed
\* out, and the entry is still there
C17_Witness ==
    /\ is_fetch(cur)
    /\ handled = "returned"
    /\ out[Len(out)].line = nread
    /\ out[Len(out)].result = Failure("Request timeout")
    /\ netCalls = 2
    /\ cur.params.url # Absent
    /\ cache_key(cur.params.url) \in DOMAIN cache
    /\ cache[cache_key(cur.params.url)].data.success

\* C18: a successful fetchWebpage result contains text and textLength
\* exactly when the request's extractText is true, and metadata exactly when
\* its extractMetadata is true, whatever fetches of the URL came before.
C18_FlagsDecideFields ==
    Answered("fetchWebpage") =>
        /\ Answer.text = Flag(cur.params.extractText, TRUE)
        /\ Answer.metadata = Flag(cur.params.extractMetadata, TRUE)

\* C19: only the completion of a fetchWebpage network call changes the
\* cache: every other response (of webSearch, extractLinks, scrapeData,
\* list_tools, ping, or an error) leaves it unchanged, and no step removes
\* a key from it.
C19_CacheOnlyFetch ==
    /\ [][cache' # cache =>
            /\ is_fetch(cur)
            /\ pc = "awaiting"
            /\ FetchAnswered
            /\ out'[Len(out')].result.success]_vars
    /\ [][(out' # out /\ ~FetchAnswered) => cache' = cache]_vars
    /\ [][DOMAIN cache \subseteq DOMAIN cache']_vars

\* an entry older than the TTL is still in the cache after a request that
\* is not a fetch was answered
C19_Witness ==
    /\ nread = 2
    /\ handled = "returned"
    /\ ~is_fetch(cur)
    /\ out[Len(out)].line = 2
    /\ out[Len(out)].type = "tool_response"
    /\ out[Len(out)].result.success
    /\ cache_key("u1") \in DOMAIN cache
    /\ now - cache[cache_key("u1")].time >= cache_ttl

\* a request of type tool whose tool is absent, null or an empty string
UnnamedTool(line) ==
    line.kind = "object" /\ line.type = "tool" /\ line.tool = Absent

\* C20: a tool request whose tool is absent, null or empty is answered with
\* an error response whose message starts with "Unknown tool:", not with
\* "Unknown request type:".
C20_UnnamedToolIsUnknownTool ==
    (UnnamedTool(cur) /\ handled = "returned") =>
        /\ out[Len(out)].line = nread
        /\ out[Len(out)].type = "error"
        /\ out[Len(out)].requestId = cur.id
        /\ out[Len(out)].message \in {"Unknown tool: " \o name : name \in {"", "None"}}

====
